---------------------------- MODULE Spec2Model ----------------------------
(***************************************************************************)
(* Model of x/fee_grant/internal/types/expiration.go: the ExpiresAt point  *)
(* (block time or block height) and the Duration that advances it.         *)
(*                                                                         *)
(* time.Time is modelled as an integer offset from Go's zero instant       *)
(* (January 1, year 1, 00:00:00 UTC), so Time.IsZero() is "= 0" and        *)
(* instants before the zero instant are negative.  time.Duration and the   *)
(* int64 heights are integers; the model's inputs are drawn from small     *)
(* ranges around zero and an operation whose result leaves the range is    *)
(* not taken, so int64 wrap-around is outside the checked cases.           *)
(***************************************************************************)
EXTENDS Integers, FiniteSets

\* ---------------------------------------------------------------- bounds
MaxTime == 2
MaxHeight == 3
MaxClock == 2
MaxBlock == 2

Times == (0 - MaxTime)..MaxTime
Heights == (0 - MaxHeight)..MaxHeight
Clocks == (0 - MaxClock)..MaxClock
Blocks == (0 - MaxBlock)..MaxBlock

\* ------------------------------------------------------------ data types
\* type ExpiresAt struct { Time time.Time; Height int64 }
ExpiresAt == [Time : Times, Height : Heights]

\* type Duration struct { Clock time.Duration; Block int64 }
Duration == [Clock : Clocks, Block : Blocks]

\* ExpiresAt{} and Duration{}, the zero values of the two structs
ZeroExpiresAt == [Time |-> 0, Height |-> 0]
ZeroDuration == [Clock |-> 0, Block |-> 0]

\* the error values: nil and ErrInvalidDuration(...)
Nil == "nil"
ErrInvalidDuration == "InvalidDuration"

\* ------------------------------------------------------- time.Time model
TimeIsZero(t) == t = 0
Before(t, u) == t < u
Add(t, dur) == t + dur

\* ------------------------------------------------------------- ExpiresAt
ExpiresAtTime(t) == [Time |-> t, Height |-> 0]

ExpiresAtHeight(h) == [Time |-> 0, Height |-> h]

ExpiresAtValidateBasicNoSign(e) ==
    IF ~TimeIsZero(e.Time) /\ e.Height # 0 THEN ErrInvalidDuration
    ELSE Nil

ExpiresAtValidateBasic(e) ==
    IF ~TimeIsZero(e.Time) /\ e.Height # 0 THEN ErrInvalidDuration
    ELSE IF e.Height < 0 THEN ErrInvalidDuration
    ELSE Nil

IsZero(e) == TimeIsZero(e.Time) /\ e.Height = 0

FastForwardInverted(e, t, h) ==
    IF TimeIsZero(e.Time) THEN ExpiresAtTime(t) ELSE ExpiresAtHeight(h)

FastForward(e, t, h) ==
    IF ~TimeIsZero(e.Time) THEN ExpiresAtTime(t) ELSE ExpiresAtHeight(h)

IsExpiredStrictlyAfter(e, t, h) ==
    IF ~TimeIsZero(e.Time) /\ Before(e.Time, t) THEN TRUE
    ELSE e.Height # 0 /\ h >= e.Height

IsExpired(e, t, h) ==
    IF ~TimeIsZero(e.Time) /\ ~Before(t, e.Time) THEN TRUE
    ELSE e.Height # 0 /\ h >= e.Height

IsCompatible(e, p) ==
    IF ~TimeIsZero(e.Time) THEN p.Clock > 0 ELSE p.Block > 0

StepBothFields(e, p) ==
    IF ~IsCompatible(e, p)
    THEN [val |-> ZeroExpiresAt, err |-> ErrInvalidDuration]
    ELSE [val |-> [Time |-> Add(e.Time, p.Clock), Height |-> e.Height + p.Block],
          err |-> Nil]

\* Step returns the pair (ExpiresAt, error)
Step(e, p) ==
    IF ~IsCompatible(e, p)
    THEN [val |-> ZeroExpiresAt, err |-> ErrInvalidDuration]
    ELSE IF ~TimeIsZero(e.Time)
         THEN [val |-> [e EXCEPT !.Time = Add(e.Time, p.Clock)], err |-> Nil]
         ELSE [val |-> [e EXCEPT !.Height = e.Height + p.Block], err |-> Nil]

PrepareForExport(e, dumpTime, dumpHeight) ==
    IF e.Height # 0 THEN [e EXCEPT !.Height = e.Height - dumpHeight] ELSE e

\* -------------------------------------------------------------- Duration
ClockDuration(c) == [Clock |-> c, Block |-> 0]

BlockDuration(b) == [Clock |-> 0, Block |-> b]

DurationValidateBasic(p) ==
    IF p.Block = 0 /\ p.Clock = 0 THEN ErrInvalidDuration
    ELSE IF p.Block # 0 /\ p.Clock # 0 THEN ErrInvalidDuration
    ELSE IF p.Block < 0 THEN ErrInvalidDuration
    ELSE IF p.Clock < 0 THEN ErrInvalidDuration
    ELSE Nil

\* ------------------------------------------------------------------ state
\* e        the expiration point the owning grant currently holds
\* op       the last call made on it
\* recv     the receiver of that call (the point before the call)
\* p        the Duration argument of that call
\* t, h     the time and height arguments of that call
\* res      the ExpiresAt the call returned
\* err      the error the call returned
\* ok       the bool the call returned
\* panicked MustStep has panicked: the calling process is gone
VARIABLES e, op, recv, p, t, h, res, err, ok, panicked

vars == <<e, op, recv, p, t, h, res, err, ok, panicked>>

InRange(x) == x.Time \in Times /\ x.Height \in Heights

Start(x) ==
    /\ e = x
    /\ op = "new"
    /\ recv = x
    /\ p = ZeroDuration
    /\ t = 0
    /\ h = 0
    /\ res = x
    /\ err = Nil
    /\ ok = FALSE
    /\ panicked = FALSE

\* a grant's point is created by one of the constructors, or left unset
Init ==
    \E x \in {ZeroExpiresAt} \cup {ExpiresAtTime(tt) : tt \in Times}
                             \cup {ExpiresAtHeight(hh) : hh \in Heights} :
        Start(x)

\* any value of the struct (a literal, or a decoded record)
InitAny == \E x \in ExpiresAt : Start(x)

CallValidateBasic ==
    /\ ~panicked
    /\ op' = "ValidateBasic"
    /\ recv' = e
    /\ err' = ExpiresAtValidateBasic(e)
    /\ p' = ZeroDuration /\ t' = 0 /\ h' = 0 /\ res' = e /\ ok' = FALSE
    /\ UNCHANGED <<e, panicked>>

CallIsZero ==
    /\ ~panicked
    /\ op' = "IsZero"
    /\ recv' = e
    /\ ok' = IsZero(e)
    /\ p' = ZeroDuration /\ t' = 0 /\ h' = 0 /\ res' = e /\ err' = Nil
    /\ UNCHANGED <<e, panicked>>

CallIsExpired ==
    /\ ~panicked
    /\ \E tt \in Times, hh \in Heights :
        /\ op' = "IsExpired"
        /\ recv' = e
        /\ t' = tt /\ h' = hh
        /\ ok' = IsExpired(e, tt, hh)
    /\ p' = ZeroDuration /\ res' = e /\ err' = Nil
    /\ UNCHANGED <<e, panicked>>

CallIsCompatible ==
    /\ ~panicked
    /\ \E d \in Duration :
        /\ op' = "IsCompatible"
        /\ recv' = e
        /\ p' = d
        /\ ok' = IsCompatible(e, d)
    /\ t' = 0 /\ h' = 0 /\ res' = e /\ err' = Nil
    /\ UNCHANGED <<e, panicked>>

\* the caller replaces its point by the result when Step succeeds
CallStep ==
    /\ ~panicked
    /\ \E d \in Duration :
        /\ InRange(Step(e, d).val)
        /\ op' = "Step"
        /\ recv' = e
        /\ p' = d
        /\ res' = Step(e, d).val
        /\ err' = Step(e, d).err
        /\ e' = IF Step(e, d).err = Nil THEN Step(e, d).val ELSE e
    /\ t' = 0 /\ h' = 0 /\ ok' = FALSE
    /\ UNCHANGED panicked

\* MustStep: res, err := e.Step(p); if err != nil { panic(err) }; return res
CallMustStep ==
    /\ ~panicked
    /\ \E d \in Duration :
        /\ InRange(Step(e, d).val)
        /\ op' = "MustStep"
        /\ recv' = e
        /\ p' = d
        /\ res' = Step(e, d).val
        /\ err' = Step(e, d).err
        /\ panicked' = (Step(e, d).err # Nil)
        /\ e' = IF Step(e, d).err = Nil THEN Step(e, d).val ELSE e
    /\ t' = 0 /\ h' = 0 /\ ok' = FALSE

CallFastForward ==
    /\ ~panicked
    /\ \E tt \in Times, hh \in Heights :
        /\ op' = "FastForward"
        /\ recv' = e
        /\ t' = tt /\ h' = hh
        /\ res' = FastForward(e, tt, hh)
        /\ e' = FastForward(e, tt, hh)
    /\ p' = ZeroDuration /\ err' = Nil /\ ok' = FALSE
    /\ UNCHANGED panicked

CallPrepareForExport ==
    /\ ~panicked
    /\ \E tt \in Times, hh \in Heights :
        /\ InRange(PrepareForExport(e, tt, hh))
        /\ op' = "PrepareForExport"
        /\ recv' = e
        /\ t' = tt /\ h' = hh
        /\ res' = PrepareForExport(e, tt, hh)
        /\ e' = PrepareForExport(e, tt, hh)
    /\ p' = ZeroDuration /\ err' = Nil /\ ok' = FALSE
    /\ UNCHANGED panicked

CallDurationValidateBasic ==
    /\ ~panicked
    /\ \E d \in Duration :
        /\ op' = "Duration.ValidateBasic"
        /\ p' = d
        /\ err' = DurationValidateBasic(d)
    /\ recv' = e /\ t' = 0 /\ h' = 0 /\ res' = e /\ ok' = FALSE
    /\ UNCHANGED <<e, panicked>>

Next ==
    \/ CallValidateBasic
    \/ CallIsZero
    \/ CallIsExpired
    \/ CallIsCompatible
    \/ CallStep
    \/ CallMustStep
    \/ CallFastForward
    \/ CallPrepareForExport
    \/ CallDurationValidateBasic

\* points built by the constructors and then replaced by the operations
Spec == Init /\ [][Next]_vars

\* the operations applied to any value of the struct
SpecAny == InitAny /\ [][Next]_vars

\* ------------------------------------------------------------ properties
\* the unit a point expresses: its time when the time is set, else its
\* height when the height is non-zero, else none (the unset point)
ActiveUnit(x) ==
    IF ~TimeIsZero(x.Time) THEN "time"
    ELSE IF x.Height # 0 THEN "height"
    ELSE "none"

\* C1: IsExpired(currentTime, currentStep) is true exactly when the time is
\* set and currentTime is at or after it, or the height is non-zero and
\* currentStep >= it; a time point at T is expired at T and not at T - 1, a
\* height point at N at N and not at N - 1, and the unset point never.
C1_IsExpiredInclusive ==
    op = "IsExpired" =>
        /\ ok = (   (recv.Time # 0 /\ t >= recv.Time)
                 \/ (recv.Height # 0 /\ h >= recv.Height))
        /\ (recv.Time # 0 /\ recv.Height = 0 /\ t = recv.Time => ok)
        /\ (recv.Time # 0 /\ recv.Height = 0 /\ t = recv.Time - 1 => ~ok)
        /\ (recv.Time = 0 /\ recv.Height # 0 /\ h = recv.Height => ok)
        /\ (recv.Time = 0 /\ recv.Height # 0 /\ h = recv.Height - 1 => ~ok)
        /\ (IsZero(recv) => ~ok)

C1_Witness ==
    /\ op = "IsExpired"
    /\ recv.Time # 0 /\ recv.Height = 0
    /\ t = recv.Time
    /\ ok

\* C2: Step fails with InvalidDuration exactly when IsCompatible is false;
\* when it succeeds the result has the same active unit as the receiver, a
\* time point has its time advanced by the clock span and its height kept,
\* a height point its height advanced by the block count and its time kept.
C2_StepKeepsUnit ==
    op = "Step" =>
        /\ (err = ErrInvalidDuration) <=> ~IsCompatible(recv, p)
        /\ err \in {Nil, ErrInvalidDuration}
        /\ err = Nil =>
            /\ ActiveUnit(res) = ActiveUnit(recv)
            /\ ActiveUnit(recv) = "time" =>
                  res.Time = recv.Time + p.Clock /\ res.Height = recv.Height
            /\ ActiveUnit(recv) = "height" =>
                  res.Height = recv.Height + p.Block /\ res.Time = recv.Time

\* C3: IsCompatible is true iff the receiver is a time point and the clock
\* span is positive, or the receiver is a height point and the block count
\* is positive; the unset point is compatible with no Duration.
C3_CompatibleIffSameUnit ==
    op = "IsCompatible" =>
        ok = (   (ActiveUnit(recv) = "time" /\ p.Clock > 0)
              \/ (ActiveUnit(recv) = "height" /\ p.Block > 0))

\* C4: a Duration that fails Duration.ValidateBasic never advances a point:
\* Step returns InvalidDuration, MustStep panics, the point stays as it was.
C4_InvalidDurationNeverSteps ==
    (op \in {"Step", "MustStep"} /\ DurationValidateBasic(p) # Nil) =>
        /\ err = ErrInvalidDuration
        /\ e = recv
        /\ (op = "MustStep" => panicked)

\* C5: for a valid point and dumpHeight >= 0, the exported point is expired
\* at (time, height after reload) exactly when the original is expired at
\* (time, dumpHeight + height after reload); a time point is exported
\* unchanged and a height point has dumpHeight subtracted from its height.
C5_ExportKeepsRemainingBlocks ==
    (op = "PrepareForExport" /\ ExpiresAtValidateBasic(recv) = Nil /\ h >= 0) =>
        /\ \A tt \in Times, hh \in 0..MaxHeight :
              IsExpired(res, tt, hh) = IsExpired(recv, tt, h + hh)
        /\ (ActiveUnit(recv) = "time" => res = recv)
        /\ (ActiveUnit(recv) = "height" =>
              res.Height = recv.Height - h /\ res.Time = recv.Time)

\* C6 (as stated): FastForward(t, h) keeps the receiver's unit for every t
\* and h: a time point gives a time point at t with height zero, a height
\* point gives a height point at h with the time zero.
C6_FastForwardKeepsUnit ==
    op = "FastForward" =>
        /\ ActiveUnit(recv) = "time" =>
              ActiveUnit(res) = "time" /\ res.Time = t /\ res.Height = 0
        /\ ActiveUnit(recv) = "height" =>
              ActiveUnit(res) = "height" /\ res.Height = h /\ res.Time = 0

\* C6 (amended): FastForward(t, h) on a time point returns the point with
\* time t and height zero, on a height point the point with height h and
\* the time zero; the result has the receiver's unit when that reference
\* value is non-zero and is the unset point when it is zero.
C6_FastForwardAnchors ==
    op = "FastForward" =>
        /\ ActiveUnit(recv) = "time" =>
              /\ res = [Time |-> t, Height |-> 0]
              /\ ActiveUnit(res) = (IF t # 0 THEN "time" ELSE "none")
        /\ ActiveUnit(recv) = "height" =>
              /\ res = [Time |-> 0, Height |-> h]
              /\ ActiveUnit(res) = (IF h # 0 THEN "height" ELSE "none")

C6_Witness ==
    /\ op = "FastForward"
    /\ ActiveUnit(recv) = "height"
    /\ t # 0 /\ h # 0 /\ h # recv.Height
    /\ e = [Time |-> 0, Height |-> h]

\* C7: ExpiresAt.ValidateBasic accepts a point iff at most one of its time
\* and height is non-zero and its height is >= 0, and fails with
\* InvalidDuration otherwise; the unset point, a point built from a
\* non-zero time and a point built from a height >= 0 are accepted.
C7_ValidateBasicAccepts ==
    /\ op = "ValidateBasic" =>
          /\ (err = Nil) <=>
                (~(recv.Time # 0 /\ recv.Height # 0) /\ recv.Height >= 0)
          /\ err \in {Nil, ErrInvalidDuration}
    /\ ExpiresAtValidateBasic(ZeroExpiresAt) = Nil
    /\ \A tt \in Times \ {0} : ExpiresAtValidateBasic(ExpiresAtTime(tt)) = Nil
    /\ \A hh \in 0..MaxHeight : ExpiresAtValidateBasic(ExpiresAtHeight(hh)) = Nil

C7_Witness ==
    /\ op = "ValidateBasic"
    /\ recv.Time = 0 /\ recv.Height < 0
    /\ err = ErrInvalidDuration

\* C8: a point built by a constructor and replaced by the results of
\* successful Step, FastForward and PrepareForExport calls, with any
\* arguments, never has both its time and its height non-zero.
C8_AtMostOneUnit ==
    /\ ~(e.Time # 0 /\ e.Height # 0)
    /\ ((op \in {"Step", "MustStep"} /\ err = Nil) => e = res)
    /\ (op \in {"FastForward", "PrepareForExport"} => e = res)

C8_Witness ==
    /\ op = "Step" /\ err = Nil
    /\ recv.Time # 0 /\ p.Clock > 0 /\ p.Block # 0
    /\ e.Time = recv.Time + p.Clock /\ e.Height = 0

\* C9: from a point that passes ValidateBasic, a successful Step, a
\* FastForward to a height >= 0 or a PrepareForExport with dumpHeight >= 0
\* gives a point whose height is >= 0 and that still passes ValidateBasic.
C9_HeightNeverNegative ==
    [][(/\ ExpiresAtValidateBasic(e) = Nil
        /\ (op' \in {"FastForward", "PrepareForExport"} => h' >= 0))
       => (e'.Height >= 0 /\ ExpiresAtValidateBasic(e') = Nil)]_vars

\* C10: the unset point stays unset: FastForward and PrepareForExport
\* return a point for which IsZero holds and Step fails for every Duration,
\* so an unset point never becomes one that can expire.
C10_UnsetStaysUnset ==
    [][IsZero(e) =>
          /\ IsZero(e')
          /\ (op' \in {"FastForward", "PrepareForExport"} => IsZero(res'))
          /\ (op' \in {"Step", "MustStep"} => err' = ErrInvalidDuration)]_vars

=============================================================================
